---- MODULE Spec2Model ----
(***************************************************************************)
(* Semantic verification passes of the Erlang front end                    *)
(* (compiler/syntax_erl/src/passes/sema/verify.rs): VerifyExports,         *)
(* VerifyOnLoadFunctions, VerifyNifs, VerifyTypeSpecs and VerifyCalls.     *)
(* A module and the application metadata are the inputs; the reporter is   *)
(* the only thing a pass writes to.                                        *)
(***************************************************************************)
EXTENDS Integers, Sequences, FiniteSets, TLC

VARIABLES module, app, similarity, pc, status, reporter, queries, marks

vars == <<module, app, similarity, pc, status, reporter, queries, marks>>

(***************************************************************************)
(* Bounds of the inputs.                                                   *)
(***************************************************************************)
\* largest arity a function name of the inputs carries
MaxArity == 1
\* how many argument counts at and above 2^8 the inputs hold
MaxWrap == 1
\* how many times the five passes are run in sequence
MaxRuns == 2

\* `as u8`: the width the argument count of a call is narrowed to
ArityWidth == 256
\* the similarity score (in hundredths) below which no export is suggested
SimilarityThreshold == 85

(***************************************************************************)
(* Names.                                                                  *)
(***************************************************************************)
NoModule == "<none>"
ThisModule == "m"
OtherModule == "lists"

FunctionNameNew(m, f, a) == [module |-> m, function |-> f, arity |-> a]
NewLocal(f, a) == [module |-> NoModule, function |-> f, arity |-> a]
ToLocal(name) == [name EXCEPT !.module = NoModule]

NoName == NewLocal("", 0)

\* Ord for Symbol and FunctionName: the order BTreeMap and BTreeSet iterate in
SymbolRank(s) ==
    CASE s = NoModule -> 0
      [] s = "" -> 1
      [] s = "f" -> 2
      [] s = "foo" -> 3
      [] s = "g" -> 4
      [] s = "lists" -> 5
      [] s = "m" -> 6
      [] OTHER -> 7

NameLess(a, b) ==
    \/ SymbolRank(a.module) < SymbolRank(b.module)
    \/ /\ a.module = b.module
       /\ \/ SymbolRank(a.function) < SymbolRank(b.function)
          \/ a.function = b.function /\ a.arity < b.arity

RECURSIVE SortedNames(_)
SortedNames(S) ==
    IF S = {} THEN <<>>
    ELSE LET least == CHOOSE x \in S : \A y \in S \ {x} : NameLess(x, y)
         IN <<least>> \o SortedNames(S \ {least})

(***************************************************************************)
(* Spans and diagnostics.  A span names the token it covers: the kind of   *)
(* token, the function (or declaration) that owns it and the node in the   *)
(* owner's body.                                                           *)
(***************************************************************************)
SpanOf(kind, owner, node) == [kind |-> kind, owner |-> owner, node |-> node]

Note(fmt, name, n, k, flag) ==
    [fmt |-> fmt, name |-> name, n |-> n, k |-> k, flag |-> flag]

Text(fmt) == Note(fmt, NoName, 0, 0, "")

Label(span, note) == [span |-> span, note |-> note]

ShowError(message, labels) ==
    [severity |-> "error", message |-> message, labels |-> labels]

ShowWarning(message, labels) ==
    [severity |-> "warning", message |-> message, labels |-> labels]

(***************************************************************************)
(* Application metadata: deprecation facts.                                *)
(***************************************************************************)
DeprecationSpan == SpanOf("deprecation", FunctionNameNew(OtherModule, "", 0), 0)

Fact(tag) == [tag |-> tag, span |-> DeprecationSpan, flag |-> "eventually"]

NoFact == [tag |-> "None", span |-> SpanOf("", NoName, 0), flag |-> ""]

GetFunctionDeprecation(meta, name) ==
    IF name.module = meta.module /\ meta.function_deprecation # "None"
    THEN Fact(meta.function_deprecation)
    ELSE NoFact

GetModuleDeprecation(meta, m) ==
    IF m = meta.module /\ meta.module_deprecation # "None"
    THEN Fact(meta.module_deprecation)
    ELSE NoFact

(***************************************************************************)
(* The module under verification.                                          *)
(*   functions : local FunctionName -> [span, is_nif, body]                *)
(*   exports, nifs : sets of names, each with the span of its declaration  *)
(*   imports   : local FunctionName -> the imported origin                 *)
(*   specs     : FunctionName -> [span]                                    *)
(*   on_load   : <<>> or <<name>>                                          *)
(***************************************************************************)
ContainsKey(map, key) == key \in DOMAIN map

ExportSpan(export) == SpanOf("export", export, 0)
NifSpan(nif) == SpanOf("nif", nif, 0)
OnLoadSpan(name) == SpanOf("on_load", name, 0)

(***************************************************************************)
(* VerifyExports                                                           *)
(***************************************************************************)
\* strsim::jaro_winkler(a, b).abs(), in hundredths; the names stand for their text
Abs(x) == IF x < 0 THEN -x ELSE x

JaroWinkler(sim, a, b) == Abs(sim[<<a, b>>])

\* the candidate list the OnceCell holds: one Span<String> per defined function
SimilarFunctions(m) ==
    LET names == SortedNames(DOMAIN m.functions)
    IN [i \in 1..Len(names) |->
            [span |-> m.functions[names[i]].span, item |-> names[i]]]

\* Iterator::max_by: the last of the elements that compare greatest
RECURSIVE MaxBy(_, _)
MaxBy(best, rest) ==
    IF rest = <<>> THEN best
    ELSE IF best = <<>> \/ best[1].score <= Head(rest).score
         THEN MaxBy(<<Head(rest)>>, Tail(rest))
         ELSE MaxBy(best, Tail(rest))

BelowThresholdStrict(score) == score <= SimilarityThreshold

BelowThreshold(score) == score < SimilarityThreshold

BestScored(scored) == MaxBy(<<>>, scored)

MostSimilar(sim, name, similar) ==
    LET scored == [i \in 1..Len(similar) |->
                      [score |-> JaroWinkler(sim, name, similar[i].item),
                       f |-> similar[i]]]
        best == BestScored(scored)
    IN IF best = <<>> THEN <<>>
       ELSE IF BelowThreshold(best[1].score) THEN <<>> ELSE <<best[1].f>>

InvalidExport(sim, m, export) ==
    LET most_similar == MostSimilar(sim, export, SimilarFunctions(m))
        span == ExportSpan(export)
        undefined == Label(span, Text("the referenced function is not defined in this module"))
    IN IF most_similar = <<>>
       THEN ShowError("invalid export", <<undefined>>)
       ELSE ShowError("invalid export",
                <<undefined,
                  Label(most_similar[1].span,
                        Note("maybe you meant to export {} instead?",
                             most_similar[1].item, 0, 0, ""))>>)

RECURSIVE ExportsStopAtFirst(_, _, _)
ExportsStopAtFirst(sim, m, exports) ==
    IF exports = <<>> THEN <<>>
    ELSE IF ContainsKey(m.functions, Head(exports))
         THEN ExportsStopAtFirst(sim, m, Tail(exports))
         ELSE <<InvalidExport(sim, m, Head(exports))>>

RECURSIVE ExportsLoop(_, _, _)
ExportsLoop(sim, m, exports) ==
    IF exports = <<>> THEN <<>>
    ELSE (IF ContainsKey(m.functions, Head(exports)) THEN <<>>
          ELSE <<InvalidExport(sim, m, Head(exports))>>)
         \o ExportsLoop(sim, m, Tail(exports))

VerifyExportsRun(sim, m) == ExportsLoop(sim, m, SortedNames(m.exports))

(***************************************************************************)
(* VerifyOnLoadFunctions                                                   *)
(***************************************************************************)
VerifyOnLoadFunctionsRun(m) ==
    IF m.on_load # <<>> /\ ~ContainsKey(m.functions, m.on_load[1])
    THEN <<ShowError("invalid on_load function",
              <<Label(OnLoadSpan(m.on_load[1]),
                      Text("this function is not defined in this module"))>>)>>
    ELSE <<>>

(***************************************************************************)
(* VerifyNifs                                                              *)
(***************************************************************************)
\* variant: a misplaced declaration is reported at the declaration
CheckNifAtDeclaration(m, nif) ==
    IF ~ContainsKey(m.functions, nif)
    THEN <<ShowError("invalid -nif declaration",
              <<Label(NifSpan(nif),
                      Text("the referenced function is not defined in this module"))>>)>>
    ELSE IF ~m.functions[nif].is_nif
         THEN <<ShowError("misplaced -nif declaration",
                   <<Label(NifSpan(nif),
                           Text("expected -nif declaration to precede the function it references"))>>)>>
         ELSE <<>>

CheckNif(m, nif) ==
    IF ~ContainsKey(m.functions, nif)
    THEN <<ShowError("invalid -nif declaration",
              <<Label(NifSpan(nif),
                      Text("the referenced function is not defined in this module"))>>)>>
    ELSE IF ~m.functions[nif].is_nif
         THEN <<ShowError("misplaced -nif declaration",
                   <<Label(m.functions[nif].span,
                           Text("expected -nif declaration to precede the function it references"))>>)>>
         ELSE <<>>

RECURSIVE NifsLoop(_, _)
NifsLoop(m, nifs) ==
    IF nifs = <<>> THEN <<>>
    ELSE CheckNif(m, Head(nifs)) \o NifsLoop(m, Tail(nifs))

VerifyNifsRun(m) == NifsLoop(m, SortedNames(m.nifs))

(***************************************************************************)
(* VerifyTypeSpecs                                                         *)
(***************************************************************************)
\* variant: the spec's name is looked up as written, module qualifier and all
CheckSpecQualified(m, spec_name) ==
    IF ~ContainsKey(m.functions, spec_name)
    THEN <<ShowWarning("type spec for undefined function",
              <<Label(m.specs[spec_name].span,
                      Text("this type spec has no corresponding function definition"))>>)>>
    ELSE <<>>

CheckSpec(m, spec_name) ==
    LET local_spec_name == ToLocal(spec_name)
    IN IF ~ContainsKey(m.functions, local_spec_name)
       THEN <<ShowWarning("type spec for undefined function",
                 <<Label(m.specs[spec_name].span,
                         Text("this type spec has no corresponding function definition"))>>)>>
       ELSE <<>>

RECURSIVE SpecsLoop(_, _)
SpecsLoop(m, names) ==
    IF names = <<>> THEN <<>>
    ELSE CheckSpec(m, Head(names)) \o SpecsLoop(m, Tail(names))

VerifyTypeSpecsRun(m) == SpecsLoop(m, SortedNames(DOMAIN m.specs))

(***************************************************************************)
(* VerifyCalls                                                             *)
(*                                                                         *)
(* An Apply is [node, callee, nargs, args]: nargs is apply.args.len() and  *)
(* args the call expressions among the arguments, in order.  A callee is   *)
(* [kind, module, function, arity, inner]:                                 *)
(*   Remote            module, function : [tag |-> "Atom" or "Var", name]  *)
(*   Resolved          module : "Atom" or "None"; arity : "Int"            *)
(*   PartiallyResolved function, arity                                     *)
(*   Unresolved        module : "None", "Atom" or "Var"; function : "Atom" *)
(*                     or "Var"; arity : "Int" or "Var"                    *)
(*   Atom              function (the literal)                              *)
(*   Apply             inner = <<the call in callee position>>             *)
(*   Var               any other expression                                *)
(* The result of a visit is what it reported, what it looked up, whether   *)
(* it hit unreachable!() and the expression it leaves behind.              *)
(***************************************************************************)
Lookup(op, name, owner, node) ==
    [op |-> op, name |-> name, owner |-> owner, node |-> node]

Outcome(diags, looked, panicked) ==
    [diags |-> diags, queries |-> looked, panicked |-> panicked]

Nothing == Outcome(<<>>, <<>>, FALSE)

\* b happens after a, unless a hit unreachable!()
Then(a, b) ==
    IF a.panicked THEN a
    ELSE Outcome(a.diags \o b.diags, a.queries \o b.queries, b.panicked)

Narrow(n) == n % ArityWidth

\* let arity = apply.args.len() as u8
CallArity(apply) == Narrow(apply.nargs)

DeclaredHere(fact) == Label(fact.span, Text("deprecation declared here"))

Anchors(mspan, mfmt, fspan, ffmt) ==
    [mspan |-> mspan, mfmt |-> mfmt, fspan |-> fspan, ffmt |-> ffmt]

ModuleWarning(fact, anchors) ==
    ShowWarning("use of deprecated module",
        <<Label(anchors.mspan, Note(anchors.mfmt, NoName, 0, 0, fact.flag)),
          DeclaredHere(fact)>>)

FunctionWarningAtModule(fact, anchors) ==
    ShowWarning("use of deprecated function",
        <<Label(anchors.mspan, Note(anchors.ffmt, NoName, 0, 0, fact.flag)),
          DeclaredHere(fact)>>)

FunctionWarning(fact, anchors) ==
    ShowWarning("use of deprecated function",
        <<Label(anchors.fspan, Note(anchors.ffmt, NoName, 0, 0, fact.flag)),
          DeclaredHere(fact)>>)

OnDeprecationFunctionUnreachable(fact, anchors) ==
    CASE fact.tag = "None" -> Nothing
      [] fact.tag = "Module" -> Outcome(<<ModuleWarning(fact, anchors)>>, <<>>, FALSE)
      [] OTHER -> Outcome(<<>>, <<>>, TRUE)

\* match self.app.get_function_deprecation(..) { None, Module, Function, FunctionAnyArity }
OnDeprecation(fact, anchors) ==
    CASE fact.tag = "None" -> Nothing
      [] fact.tag = "Module" -> Outcome(<<ModuleWarning(fact, anchors)>>, <<>>, FALSE)
      [] fact.tag = "Function" -> Outcome(<<FunctionWarning(fact, anchors)>>, <<>>, FALSE)
      [] fact.tag = "FunctionAnyArity" -> Outcome(<<>>, <<>>, TRUE)

QueryFunctionDeprecation(ctx, name, owner, node, anchors) ==
    Then(Outcome(<<>>, <<Lookup("get_function_deprecation", name, owner, node)>>, FALSE),
         OnDeprecation(GetFunctionDeprecation(ctx.app, name), anchors))

\* if !self.locals.contains(&name) { error }
LocalOnly(ctx, name, owner, node, undefinedLabel) ==
    Then(Outcome(<<>>, <<Lookup("locals.contains", name, owner, node)>>, FALSE),
         IF name \in ctx.locals THEN Nothing
         ELSE Outcome(<<ShowError("reference to undefined function", <<undefinedLabel>>)>>,
                      <<>>, FALSE))

LocalOrImportedImportsFirst(ctx, name, owner, node, undefinedLabel, anchors) ==
    IF name \in DOMAIN ctx.imports
    THEN Then(Outcome(<<>>, <<Lookup("imports.get", name, owner, node)>>, FALSE),
              QueryFunctionDeprecation(ctx, ctx.imports[name], owner, node, anchors))
    ELSE LocalOnly(ctx, name, owner, node, undefinedLabel)

\* if !self.locals.contains(&name) { match self.imports.get(&name) { None => error,
\*                                   Some(imported) => deprecation of imported } }
LocalOrImported(ctx, name, owner, node, undefinedLabel, anchors) ==
    Then(Outcome(<<>>, <<Lookup("locals.contains", name, owner, node)>>, FALSE),
         IF name \in ctx.locals THEN Nothing
         ELSE Then(Outcome(<<>>, <<Lookup("imports.get", name, owner, node)>>, FALSE),
                   IF name \notin DOMAIN ctx.imports
                   THEN Outcome(<<ShowError("reference to undefined function",
                                    <<undefinedLabel>>)>>, <<>>, FALSE)
                   ELSE QueryFunctionDeprecation(ctx, ctx.imports[name], owner, node,
                                                 anchors)))

ArityCheckMissingOnly(declared, arity, span, name, missingFmt, tooManyFmt) ==
    IF declared > arity
    THEN Outcome(<<ShowError("missing arguments",
                     <<Label(span, Note(missingFmt, name, declared, arity, ""))>>)>>,
                 <<>>, FALSE)
    ELSE Nothing

\* if declared > arity { "missing arguments" } else if declared < arity { "too many arguments" }
ArityCheck(declared, arity, span, name, missingFmt, tooManyFmt) ==
    IF declared > arity
    THEN Outcome(<<ShowError("missing arguments",
                     <<Label(span, Note(missingFmt, name, declared, arity, ""))>>)>>,
                 <<>>, FALSE)
    ELSE IF declared < arity
         THEN Outcome(<<ShowError("too many arguments",
                          <<Label(span, Note(tooManyFmt, name, declared, arity, ""))>>)>>,
                      <<>>, FALSE)
         ELSE Nothing

ApplySpan(owner, apply) == SpanOf("apply", owner, apply.node)
RemoteSpan(owner, apply) == SpanOf("remote", owner, apply.node)
ModuleTokenSpan(owner, apply) == SpanOf("module", owner, apply.node)
FunctionTokenSpan(owner, apply) == SpanOf("function", owner, apply.node)
ReferenceSpan(owner, apply) == SpanOf("reference", owner, apply.node)

ModuleNote == "this module will be deprecated {}"
FunctionNote == "this function will be deprecated {}"

\* Expr::Remote(Remote { span: rspan, module, function, .. })
RemoteArm(ctx, owner, apply) ==
    LET c == apply.callee
        arity == CallArity(apply)
        m == c.module
        f == c.function
    IN IF m.tag = "Atom" /\ f.tag = "Atom" /\ m.name = ctx.module
       THEN LET name == NewLocal(f.name, arity)
            IN LocalOnly(ctx, name, owner, apply.node,
                   Label(RemoteSpan(owner, apply),
                         Note("the function {} is not defined in this module", name, 0, 0, "")))
       ELSE IF m.tag = "Atom" /\ f.tag = "Atom"
       THEN QueryFunctionDeprecation(ctx, FunctionNameNew(m.name, f.name, arity),
                owner, apply.node,
                Anchors(ModuleTokenSpan(owner, apply), ModuleNote,
                        FunctionTokenSpan(owner, apply), FunctionNote))
       ELSE IF m.tag # "Atom" /\ f.tag = "Atom"
       THEN LET name == NewLocal(f.name, arity)
            IN LocalOrImported(ctx, name, owner, apply.node,
                   Label(FunctionTokenSpan(owner, apply),
                         Note("the function {} is not defined or imported in this module",
                              name, 0, 0, "")),
                   Anchors(FunctionTokenSpan(owner, apply), FunctionNote,
                           FunctionTokenSpan(owner, apply), FunctionNote))
       ELSE Nothing

ResolvedName(c) ==
    FunctionNameNew(IF c.module.tag = "Atom" THEN c.module.name ELSE NoModule,
                    c.function.name, c.arity.n)

\* Expr::FunctionVar(FunctionVar::Resolved(name))
ResolvedArm(ctx, owner, apply) ==
    LET name == ResolvedName(apply.callee)
        arity == CallArity(apply)
        local_name == ToLocal(name)
    IN Then(IF name.module = ctx.module
            THEN LocalOnly(ctx, local_name, owner, apply.node,
                     Label(ReferenceSpan(owner, apply),
                           Note("the function {} is not defined in this module",
                                local_name, 0, 0, "")))
            ELSE QueryFunctionDeprecation(ctx, name, owner, apply.node,
                     Anchors(ReferenceSpan(owner, apply), FunctionNote,
                             ReferenceSpan(owner, apply), FunctionNote)),
            ArityCheck(name.arity, arity, ApplySpan(owner, apply), name,
                "{} requires {} arguments, but only {} were provided",
                "{} only takes {} arguments, but {} were provided"))

\* Expr::FunctionVar(FunctionVar::PartiallyResolved(name))
PartiallyResolvedArm(ctx, owner, apply) ==
    LET c == apply.callee
        arity == CallArity(apply)
        span == ApplySpan(owner, apply)
        local_name == NewLocal(c.function.name, arity)
    IN Then(LocalOrImported(ctx, local_name, owner, apply.node,
                Label(span, Note("the function {} is not defined or imported in this module",
                                 local_name, 0, 0, "")),
                Anchors(span, ModuleNote, span, FunctionNote)),
            ArityCheck(c.arity.n, arity, span, NewLocal(c.function.name, c.arity.n),
                "{} requires {} arguments, but only {} were provided",
                "{} only takes {} arguments, but {} were provided"))

\* match self.app.get_module_deprecation(&m.name) { Some(Deprecation::Module {..}), _ => () }
UnresolvedModuleDeprecation(ctx, owner, apply) ==
    LET m == apply.callee.module
        span == ApplySpan(owner, apply)
    IN IF m.tag = "Atom"
       THEN Then(Outcome(<<>>, <<Lookup("get_module_deprecation",
                                        FunctionNameNew(m.name, "", 0), owner, apply.node)>>,
                         FALSE),
                 LET fact == GetModuleDeprecation(ctx.app, m.name)
                 IN IF fact.tag = "Module"
                    THEN Outcome(<<ModuleWarning(fact, Anchors(span, ModuleNote,
                                                               span, FunctionNote))>>,
                                 <<>>, FALSE)
                    ELSE Nothing)
       ELSE Nothing

\* Expr::FunctionVar(FunctionVar::Unresolved(name))
UnresolvedArm(ctx, owner, apply) ==
    LET c == apply.callee
        arity == CallArity(apply)
        span == ApplySpan(owner, apply)
    IN Then(UnresolvedModuleDeprecation(ctx, owner, apply),
       Then(IF c.module.tag = "None" /\ c.function.tag = "Atom"
            THEN LET name == NewLocal(c.function.name, arity)
                 IN LocalOrImported(ctx, name, owner, apply.node,
                        Label(span,
                              Note("the function {} is not defined or imported in this module",
                                   name, 0, 0, "")),
                        Anchors(span, ModuleNote, span, FunctionNote))
            ELSE Nothing,
            IF c.arity.tag = "Int"
            THEN ArityCheck(c.arity.n, arity, span, NoName,
                     "this call requires {} arguments, but only {} were provided",
                     "this call should only have {} arguments, but {} were provided")
            ELSE Nothing))

\* Expr::Literal(Literal::Atom(id))
AtomArm(ctx, owner, apply) ==
    LET arity == CallArity(apply)
        span == ApplySpan(owner, apply)
        name == NewLocal(apply.callee.function.name, arity)
    IN LocalOrImported(ctx, name, owner, apply.node,
           Label(span, Note("{} is not defined or imported in this module", name, 0, 0, "")),
           Anchors(span, ModuleNote, span, FunctionNote))

\* match apply.callee.as_ref() { .. }
CheckCallee(ctx, owner, apply) ==
    CASE apply.callee.kind = "Remote" -> RemoteArm(ctx, owner, apply)
      [] apply.callee.kind = "Resolved" -> ResolvedArm(ctx, owner, apply)
      [] apply.callee.kind = "PartiallyResolved" -> PartiallyResolvedArm(ctx, owner, apply)
      [] apply.callee.kind = "Unresolved" -> UnresolvedArm(ctx, owner, apply)
      [] apply.callee.kind = "Atom" -> AtomArm(ctx, owner, apply)
      [] OTHER -> Nothing

\* the arguments are visited first, in order; the callee is not visited
RECURSIVE VisitMutApply(_, _, _)
RECURSIVE VisitMutExprs(_, _, _)
VisitMutExprs(ctx, owner, exprs) ==
    IF exprs = <<>> THEN Nothing
    ELSE Then(VisitMutApply(ctx, owner, Head(exprs)),
              VisitMutExprs(ctx, owner, Tail(exprs)))

VisitMutApply(ctx, owner, apply) ==
    Then(VisitMutExprs(ctx, owner, apply.args), CheckCallee(ctx, owner, apply))

\* visit::visit_mut_function: every call expression of the body reaches visit_mut_apply
VisitMutFunction(ctx, owner, function) == VisitMutExprs(ctx, owner, function.body)

ResolveCallee(ctx, apply) ==
    IF apply.callee.kind = "Atom"
    THEN [apply EXCEPT !.callee.kind = "PartiallyResolved",
                       !.callee.arity = [tag |-> "Int", n |-> CallArity(apply)]]
    ELSE apply

FunctionRewritten(ctx, function) ==
    [function EXCEPT !.body = [i \in 1..Len(function.body) |->
                                  ResolveCallee(ctx, function.body[i])]]

\* what the visitor leaves in the function it was lent: it assigns to no node
FunctionAfterVisit(ctx, function) == function

VisitorContext(m, meta) ==
    [module |-> m.name,
     locals |-> DOMAIN m.functions,
     imports |-> m.imports,
     app |-> meta]

RECURSIVE CallsLoop(_, _, _)
CallsLoop(ctx, m, names) ==
    IF names = <<>> THEN Nothing
    ELSE Then(VisitMutFunction(ctx, Head(names), m.functions[Head(names)]),
              CallsLoop(ctx, m, Tail(names)))

VerifyCallsRun(m, meta) ==
    CallsLoop(VisitorContext(m, meta), m, SortedNames(DOMAIN m.functions))

ModuleAfterVerifyCalls(m, meta) ==
    [m EXCEPT !.functions = [name \in DOMAIN m.functions |->
                                FunctionAfterVisit(VisitorContext(m, meta),
                                                   m.functions[name])]]

(***************************************************************************)
(* Inputs.                                                                 *)
(***************************************************************************)
Arities == 0..MaxArity

\* argument counts: around the declared arities, and from 2^8 upwards
ArgCounts == (0..(MaxArity + 1)) \cup (ArityWidth..(ArityWidth + MaxWrap))

Atom(a) == [tag |-> "Atom", name |-> a]
VarName == [tag |-> "Var", name |-> "X"]
Absent == [tag |-> "None", name |-> ""]
IntArity(n) == [tag |-> "Int", n |-> n]
VarArity == [tag |-> "Var", n |-> 0]

Callee(kind, m, f, a, inner) ==
    [kind |-> kind, module |-> m, function |-> f, arity |-> a, inner |-> inner]

Apply(node, callee, nargs, args) ==
    [node |-> node, callee |-> callee, nargs |-> nargs, args |-> args]

FunctionDef(name, is_nif, body) ==
    [span |-> SpanOf("function", name, 0), is_nif |-> is_nif, body |-> body]

RemoteCallees ==
    {Callee("Remote", m, f, VarArity, <<>>) :
        m \in {Atom(ThisModule), Atom(OtherModule), VarName}, f \in {Atom("f"), VarName}}

ResolvedCallees ==
    {Callee("Resolved", Atom(m), Atom("f"), IntArity(n), <<>>) :
        m \in {ThisModule, OtherModule}, n \in Arities}

PartiallyResolvedCallees ==
    {Callee("PartiallyResolved", Absent, Atom("f"), IntArity(n), <<>>) : n \in Arities}

UnresolvedCallees ==
    {Callee("Unresolved", m, f, a, <<>>) :
        m \in {Absent, Atom(OtherModule), VarName},
        f \in {Atom("f"), VarName},
        a \in {IntArity(n) : n \in Arities} \cup {VarArity}}

AtomCallee(f) == Callee("Atom", Absent, Atom(f), VarArity, <<>>)

VarCallee == Callee("Var", Absent, VarName, VarArity, <<>>)

FlatCallees ==
    RemoteCallees \cup ResolvedCallees \cup PartiallyResolvedCallees
        \cup UnresolvedCallees \cup {AtomCallee("f"), VarCallee}

\* calls that occur inside another call: foo() and lists:f()
InnerCalls(node) ==
    {Apply(node, AtomCallee("foo"), 0, <<>>),
     Apply(node, Callee("Remote", Atom(OtherModule), Atom("f"), VarArity, <<>>), 0, <<>>)}

Calls ==
    {Apply(1, c, k, <<>>) : c \in FlatCallees, k \in ArgCounts}
    \cup {Apply(1, c, k, <<i>>) :
            c \in {AtomCallee("f"), VarCallee}, k \in ArgCounts \ {0},
            i \in InnerCalls(2)}
    \cup {Apply(1, Callee("Apply", Absent, VarName, VarArity, <<i>>), k, <<>>) :
            i \in InnerCalls(2), k \in ArgCounts}

TargetNames == {NewLocal("f", n) : n \in Arities}

HostName == NewLocal("g", 0)

DeprecationKinds == {"None", "Module", "Function", "FunctionAnyArity"}

Metadata(kind) ==
    [module |-> OtherModule,
     function_deprecation |-> kind,
     module_deprecation |-> IF kind = "Function" THEN "None" ELSE kind]

TableNames == {NewLocal("f", 0), NewLocal("foo", 0), NewLocal("g", 0)}

SpecNames == {NewLocal("f", 0), FunctionNameNew(ThisModule, "foo", 0),
              FunctionNameNew(ThisModule, "g", 0)}

Scores == {50, SimilarityThreshold - 1, SimilarityThreshold, 90}

NamePairs == TableNames \X TableNames

NoSimilarity == [p \in NamePairs |-> IF p[1] = p[2] THEN 100 ELSE 0]

UnorderedPairs == {{a, b} : a, b \in TableNames} \ {{a} : a \in TableNames}

\* jaro_winkler is symmetric and scores a string against itself 1.0
SimilarityTables ==
    {[p \in NamePairs |-> IF p[1] = p[2] THEN 100 ELSE u[{p[1], p[2]}]] :
        u \in [UnorderedPairs -> Scores]}

EmptyMap == [x \in {} |-> x]

UndefinedCall == Apply(1, AtomCallee("foo"), 1, <<>>)

\* a module with one call in g/0, and f/0 .. f/MaxArity defined or imported or neither
CallModules ==
    {[name |-> ThisModule,
      functions |-> [n \in locals \cup {HostName} |->
                        FunctionDef(n, FALSE, IF n = HostName THEN <<call>> ELSE <<>>)],
      exports |-> {HostName},
      imports |-> [n \in imported |-> FunctionNameNew(OtherModule, n.function, n.arity)],
      specs |-> EmptyMap,
      nifs |-> {},
      on_load |-> <<>>] :
        locals \in SUBSET TargetNames, imported \in SUBSET TargetNames, call \in Calls}

\* foo(X) as a bare atom and as a reference without a module
ScenarioCallees ==
    {AtomCallee("foo"),
     Callee("PartiallyResolved", Absent, Atom("foo"), IntArity(1), <<>>),
     Callee("Unresolved", Absent, Atom("foo"), IntArity(1), <<>>)}

\* module m defines f/1 and g/0, exports f/1, and g/0 calls foo(X)
ScenarioModules ==
    {[name |-> ThisModule,
      functions |-> [n \in {NewLocal("f", 1), HostName} |->
                        FunctionDef(n, FALSE,
                                    IF n = HostName THEN <<Apply(1, c, 1, <<>>)>> ELSE <<>>)],
      exports |-> {NewLocal("f", 1)},
      imports |-> EmptyMap,
      specs |-> EmptyMap,
      nifs |-> {},
      on_load |-> <<>>] : c \in ScenarioCallees}

\* modules that differ in what they export
ExportModules ==
    {[name |-> ThisModule,
      functions |-> [n \in defined |-> FunctionDef(n, FALSE, <<>>)],
      exports |-> exports,
      imports |-> EmptyMap,
      specs |-> EmptyMap,
      nifs |-> {},
      on_load |-> <<>>] :
        defined \in SUBSET TableNames, exports \in SUBSET TableNames}

\* modules that differ in their -nifs, -spec and -on_load declarations
TableModules ==
    {[name |-> ThisModule,
      functions |-> [n \in {x \in TableNames : kind[x] # "absent"} |->
                        FunctionDef(n, kind[n] = "nif",
                                    IF kind[n] = "nif" THEN <<>> ELSE <<UndefinedCall>>)],
      exports |-> {},
      imports |-> EmptyMap,
      specs |-> [n \in specs |-> [span |-> SpanOf("spec", n, 0)]],
      nifs |-> nifs,
      on_load |-> on_load] :
        kind \in [TableNames -> {"absent", "plain", "nif"}],
        specs \in SUBSET SpecNames, nifs \in SUBSET TableNames,
        on_load \in {<<>>, <<NewLocal("f", 0)>>, <<NewLocal("g", 0)>>}}

(***************************************************************************)
(* The passes, run one after the other MaxRuns times over the same module  *)
(* with the same reporter.                                                 *)
(***************************************************************************)
PassOrder ==
    <<"VerifyExports", "VerifyOnLoadFunctions", "VerifyNifs", "VerifyTypeSpecs",
      "VerifyCalls">>

NumPasses == Len(PassOrder)

NextPass == PassOrder[(pc % NumPasses) + 1]

Start ==
    /\ pc = 0
    /\ status = "running"
    /\ reporter = <<>>
    /\ queries = <<>>
    /\ marks = <<>>

InitCalls ==
    /\ module \in CallModules \cup ScenarioModules
    /\ app \in {Metadata(k) : k \in DeprecationKinds}
    /\ similarity = NoSimilarity
    /\ Start

InitExports ==
    /\ module \in ExportModules
    /\ app = Metadata("None")
    /\ similarity \in SimilarityTables
    /\ Start

InitTables ==
    /\ module \in TableModules
    /\ app = Metadata("None")
    /\ similarity = NoSimilarity
    /\ Start

Init == InitCalls \/ InitExports \/ InitTables

Ready(pass) ==
    /\ status = "running"
    /\ pc < MaxRuns * NumPasses
    /\ NextPass = pass

\* Ok(module): the pass returns, its diagnostics are with the reporter
Returned(diags) ==
    /\ reporter' = reporter \o diags
    /\ marks' = Append(marks, Len(reporter'))
    /\ pc' = pc + 1
    /\ status' = "running"

VerifyExports ==
    /\ Ready("VerifyExports")
    /\ Returned(VerifyExportsRun(similarity, module))
    /\ UNCHANGED <<module, app, similarity, queries>>

VerifyOnLoadFunctions ==
    /\ Ready("VerifyOnLoadFunctions")
    /\ Returned(VerifyOnLoadFunctionsRun(module))
    /\ UNCHANGED <<module, app, similarity, queries>>

VerifyNifs ==
    /\ Ready("VerifyNifs")
    /\ Returned(VerifyNifsRun(module))
    /\ UNCHANGED <<module, app, similarity, queries>>

VerifyTypeSpecs ==
    /\ Ready("VerifyTypeSpecs")
    /\ Returned(VerifyTypeSpecsRun(module))
    /\ UNCHANGED <<module, app, similarity, queries>>

VerifyCalls ==
    /\ Ready("VerifyCalls")
    /\ LET out == VerifyCallsRun(module, app)
       IN /\ queries' = queries \o out.queries
          /\ IF out.panicked
             THEN /\ reporter' = reporter \o out.diags
                  /\ status' = "panicked"
                  /\ UNCHANGED <<pc, marks>>
             ELSE Returned(out.diags)
    /\ module' = ModuleAfterVerifyCalls(module, app)
    /\ UNCHANGED <<app, similarity>>

Next ==
    \/ VerifyExports
    \/ VerifyOnLoadFunctions
    \/ VerifyNifs
    \/ VerifyTypeSpecs
    \/ VerifyCalls

Spec == Init /\ [][Next]_vars

(***************************************************************************)
(* Reading the reporter and the lookups back, call by call.                *)
(***************************************************************************)
\* the calls visit_mut_apply is invoked on, from a call downwards
RECURSIVE VisitedFrom(_)
VisitedFrom(apply) ==
    {apply} \cup UNION {VisitedFrom(apply.args[i]) : i \in 1..Len(apply.args)}

VisitedIn(function) ==
    UNION {VisitedFrom(function.body[i]) : i \in 1..Len(function.body)}

VisitedCalls ==
    UNION {{[owner |-> n, apply |-> a] : a \in VisitedIn(module.functions[n])} :
              n \in DOMAIN module.functions}

\* the first run of VerifyCalls has just returned
FirstCallsReturned == pc = NumPasses /\ status = "running"

DiagnosticsOf(c) ==
    SelectSeq(reporter, LAMBDA d : /\ d.labels[1].span.owner = c.owner
                                   /\ d.labels[1].span.node = c.apply.node)

QueriesOf(c) ==
    SelectSeq(queries, LAMBDA q : q.owner = c.owner /\ q.node = c.apply.node)

IsArityError(d) ==
    d.severity = "error" /\ d.message \in {"missing arguments", "too many arguments"}

IsDeprecationWarning(d) ==
    d.severity = "warning"
        /\ d.message \in {"use of deprecated module", "use of deprecated function"}

IsUndefinedError(d) ==
    d.severity = "error" /\ d.message = "reference to undefined function"

NotAtom(n) == n.tag # "Atom"

\* neither the module position nor the function position is a known atom
DynamicCallee(callee) ==
    /\ callee.kind \in {"Remote", "Unresolved"}
    /\ NotAtom(callee.module)
    /\ NotAtom(callee.function)

ArityErrorsOf(c) == SelectSeq(DiagnosticsOf(c), IsArityError)

(***************************************************************************)
(* C1 (as stated).  A call whose callee is dynamic (neither position a     *)
(* known atom), Remote or Unresolved, gets no diagnostic at all, whatever  *)
(* arity the reference records and however many arguments are supplied.    *)
(***************************************************************************)
C1_DynamicCallsSilent ==
    FirstCallsReturned =>
        \A c \in VisitedCalls :
            DynamicCallee(c.apply.callee) => DiagnosticsOf(c) = <<>>

(***************************************************************************)
(* C1 (amended).  Once VerifyCalls has returned, a call whose callee is    *)
(* dynamic has made no lookup and got no diagnostic, except that an        *)
(* Unresolved reference recording an integer arity N gets exactly one      *)
(* arity error when N differs from the argument count narrowed to 8 bits:  *)
(* "missing arguments" when N is the greater, else "too many arguments".   *)
(***************************************************************************)
C1_DynamicCallsOnlyArity ==
    FirstCallsReturned =>
        \A c \in VisitedCalls :
            LET callee == c.apply.callee
                k == c.apply.nargs % ArityWidth
                got == DiagnosticsOf(c)
            IN DynamicCallee(callee) =>
                  /\ QueriesOf(c) = <<>>
                  /\ IF callee.kind = "Unresolved" /\ callee.arity.tag = "Int"
                        /\ callee.arity.n # k
                     THEN /\ Len(got) = 1
                          /\ got[1].severity = "error"
                          /\ got[1].message = IF callee.arity.n > k
                                              THEN "missing arguments"
                                              ELSE "too many arguments"
                          /\ got[1].labels[1].note.n = callee.arity.n
                          /\ got[1].labels[1].note.k = k
                     ELSE got = <<>>

\* a dynamic Remote call, and a dynamic Unresolved one whose arity mismatch was reported
C1_Witness ==
    /\ FirstCallsReturned
    /\ \E c \in VisitedCalls :
          /\ DynamicCallee(c.apply.callee)
          /\ c.apply.callee.kind = "Unresolved"
          /\ c.apply.callee.module.tag = "Var"
          /\ Len(DiagnosticsOf(c)) = 1
          /\ app.function_deprecation = "Module"

(***************************************************************************)
(* C2.  A Remote callee with a module or a function sub-expression that is *)
(* no known atom is not checked: no lookup in locals or imports, no        *)
(* deprecation query, no diagnostic.                                       *)
(***************************************************************************)
C2_RemoteNonAtomUnchecked ==
    FirstCallsReturned =>
        \A c \in VisitedCalls :
            (/\ c.apply.callee.kind = "Remote"
             /\ (NotAtom(c.apply.callee.module) \/ NotAtom(c.apply.callee.function)))
                => QueriesOf(c) = <<>> /\ DiagnosticsOf(c) = <<>>

(***************************************************************************)
(* C3.  A Resolved reference declared with arity N and called with K       *)
(* arguments gets exactly one "missing arguments" error naming N and K     *)
(* when K < N, exactly one "too many arguments" error naming N and K when  *)
(* K > N, and no arity error when K = N.                                   *)
(***************************************************************************)
C3_ResolvedAritySymmetry ==
    FirstCallsReturned =>
        \A c \in VisitedCalls :
            LET callee == c.apply.callee
                n == callee.arity.n
                k == c.apply.nargs
                got == ArityErrorsOf(c)
            IN callee.kind = "Resolved" =>
                  IF k = n THEN got = <<>>
                  ELSE /\ Len(got) = 1
                       /\ got[1].message = IF k < n THEN "missing arguments"
                                           ELSE "too many arguments"
                       /\ got[1].labels[1].note.n = n
                       /\ got[1].labels[1].note.k = k

(***************************************************************************)
(* C4.  Shadowing: a local-form call (Remote with a module that is no      *)
(* atom, PartiallyResolved, Unresolved without a module, bare atom) to a   *)
(* name, function atom and call arity, that is both in locals and in       *)
(* imports resolves via locals: imports is not consulted, no deprecation   *)
(* query is made, and the call gets neither an undefined-function error    *)
(* nor a deprecation warning.                                              *)
(***************************************************************************)
LocalForm(callee) ==
    \/ callee.kind = "Remote" /\ NotAtom(callee.module) /\ callee.function.tag = "Atom"
    \/ callee.kind = "PartiallyResolved"
    \/ callee.kind = "Unresolved" /\ callee.module.tag = "None"
          /\ callee.function.tag = "Atom"
    \/ callee.kind = "Atom"

CalledName(apply) == NewLocal(apply.callee.function.name, apply.nargs)

Shadowed(c) ==
    /\ LocalForm(c.apply.callee)
    /\ CalledName(c.apply) \in DOMAIN module.functions
    /\ CalledName(c.apply) \in DOMAIN module.imports

C4_ShadowingPrecedence ==
    FirstCallsReturned =>
        \A c \in VisitedCalls :
            Shadowed(c) =>
               /\ \A i \in 1..Len(QueriesOf(c)) :
                     QueriesOf(c)[i].op = "locals.contains"
               /\ \A i \in 1..Len(DiagnosticsOf(c)) :
                     /\ ~IsUndefinedError(DiagnosticsOf(c)[i])
                     /\ ~IsDeprecationWarning(DiagnosticsOf(c)[i])

\* a shadowed name called in local form while its imported origin is deprecated
C4_Witness ==
    /\ FirstCallsReturned
    /\ app.function_deprecation = "Function"
    /\ \E c \in VisitedCalls :
          /\ Shadowed(c)
          /\ c.apply.callee.kind = "Atom"
          /\ Len(QueriesOf(c)) = 1

(***************************************************************************)
(* C5 (as stated).  Every deprecation warning has two labels, the second   *)
(* at the deprecation's declared location; a module-level fact is anchored *)
(* on the module-name token when the callee is a Remote call and on the    *)
(* whole reference otherwise, a function-level fact on the function-name   *)
(* token, in every branch that queries deprecation.                        *)
(***************************************************************************)
DeprecationWarningsOf(c) == SelectSeq(DiagnosticsOf(c), IsDeprecationWarning)

SecondIsDeclaration(d) ==
    /\ Len(d.labels) = 2
    /\ d.labels[2].span = DeprecationSpan
    /\ d.labels[2].note.fmt = "deprecation declared here"

AnchorOf(callee, message) ==
    CASE callee.kind = "Remote" /\ callee.module.tag = "Atom" ->
           IF message = "use of deprecated module" THEN "module" ELSE "function"
      [] callee.kind = "Remote" -> "function"
      [] callee.kind = "Resolved" -> "reference"
      [] OTHER -> "apply"

MarkAt(i) == IF i = 0 THEN 0 ELSE marks[i]

RunsReturned == Len(marks) \div NumPasses

RunDiagnostics(r) ==
    SubSeq(reporter, MarkAt((r - 1) * NumPasses) + 1, MarkAt(r * NumPasses))

(***************************************************************************)
(* C6.  Idempotence: the passes run again over the module the first run    *)
(* returned, with the same metadata, report exactly the sequence of        *)
(* diagnostics the first run reported.                                     *)
(***************************************************************************)
C6_Idempotence ==
    \A r \in 1..RunsReturned : RunDiagnostics(r) = RunDiagnostics(1)

\* two runs that each reported an error and a warning
C6_Witness ==
    /\ RunsReturned >= 2
    /\ \E i, j \in 1..Len(RunDiagnostics(2)) :
          /\ RunDiagnostics(2)[i].severity = "error"
          /\ RunDiagnostics(2)[j].severity = "warning"

(***************************************************************************)
(* C7.  No pass changes the module: functions and their bodies, exports,   *)
(* imports, specs, nifs, on_load and name are after a pass what they were  *)
(* before it.                                                              *)
(***************************************************************************)
C7_ModuleUnchanged == [][module' = module]_vars

\* VerifyCalls has walked a body with a call in it and reported on it
C7_Witness ==
    /\ FirstCallsReturned
    /\ \E c \in VisitedCalls : c.apply.args # <<>> /\ DiagnosticsOf(c) # <<>>

(***************************************************************************)
(* C8 (as stated).  Every pass is total: whatever fact the metadata        *)
(* returns, the legacy any-arity variant included, run completes and       *)
(* returns the module and never aborts.                                    *)
(***************************************************************************)
C8_EveryPassReturns == status = "running" /\ Len(marks) = pc

(***************************************************************************)
(* C8 (amended).  Every pass completes and returns the module whenever the *)
(* metadata answers with no fact, a module-level fact or a function-level  *)
(* fact, and an undefined call target never stops the walk of the calls    *)
(* after it; VerifyCalls aborts, at unreachable!(), only when a            *)
(* get_function_deprecation query is answered with the legacy any-arity    *)
(* variant.                                                                *)
(***************************************************************************)
C8_TotalUnlessLegacy ==
    /\ status = "running" =>
          /\ Len(marks) = pc
          /\ \A i \in 1..Len(queries) :
                queries[i].op = "get_function_deprecation" =>
                   GetFunctionDeprecation(app, queries[i].name).tag # "FunctionAnyArity"
    /\ status = "panicked" =>
          /\ app.function_deprecation = "FunctionAnyArity"
          /\ NextPass = "VerifyCalls"
          /\ queries # <<>>
          /\ queries[Len(queries)].op = "get_function_deprecation"
    /\ FirstCallsReturned =>
          \A c \in VisitedCalls : LocalForm(c.apply.callee) => QueriesOf(c) # <<>>

\* a function-level fact was reported and two undefined targets were both reported
C8_Witness ==
    /\ FirstCallsReturned
    /\ app.function_deprecation = "Function"
    /\ \E c, d \in VisitedCalls :
          /\ c # d
          /\ \E i \in 1..Len(DiagnosticsOf(c)) : IsUndefinedError(DiagnosticsOf(c)[i])
          /\ \E i \in 1..Len(DiagnosticsOf(d)) : IsUndefinedError(DiagnosticsOf(d)[i])

(***************************************************************************)
(* C9.  VerifyExports reports exactly one "invalid export" error for each  *)
(* export that is no key of functions, none for an export that is, so as   *)
(* many errors as there are undefined exports, and it returns.             *)
(***************************************************************************)
ExportDiagnostics == SubSeq(reporter, 1, MarkAt(1))

UndefinedExports == {e \in module.exports : e \notin DOMAIN module.functions}

DiagnosticsAt(diags, span) == SelectSeq(diags, LAMBDA d : d.labels[1].span = span)

C9_OneErrorPerInvalidExport ==
    /\ pc = 0 => ENABLED VerifyExports
    /\ Len(marks) >= 1 =>
          /\ Len(ExportDiagnostics) = Cardinality(UndefinedExports)
          /\ \A i \in 1..Len(ExportDiagnostics) :
                /\ ExportDiagnostics[i].severity = "error"
                /\ ExportDiagnostics[i].message = "invalid export"
          /\ \A e \in module.exports :
                Len(DiagnosticsAt(ExportDiagnostics, ExportSpan(e)))
                    = IF e \in UndefinedExports THEN 1 ELSE 0

\* two undefined exports and a defined one
C9_Witness ==
    /\ Len(marks) >= 1
    /\ Cardinality(UndefinedExports) >= 2
    /\ module.exports \ UndefinedExports # {}
    /\ Len(ExportDiagnostics) = 2

(***************************************************************************)
(* C10.  The diagnostic of an invalid export has two labels, the second at *)
(* the suggested function with "maybe you meant to export ... instead?",   *)
(* exactly when the greatest similarity score over the defined functions   *)
(* is at least 0.85, and the suggested function then attains that score;   *)
(* otherwise, and when no function is defined, it has one label.           *)
(***************************************************************************)
ScoreOf(e, f) == similarity[<<e, f>>]

IsBestMatch(e, f) ==
    /\ f \in DOMAIN module.functions
    /\ \A g \in DOMAIN module.functions : ScoreOf(e, g) <= ScoreOf(e, f)

C10_SimilarityThreshold ==
    Len(marks) >= 1 =>
        \A e \in UndefinedExports :
            LET d == DiagnosticsAt(ExportDiagnostics, ExportSpan(e))[1]
                suggested == \E f \in DOMAIN module.functions :
                                IsBestMatch(e, f) /\ ScoreOf(e, f) >= SimilarityThreshold
            IN /\ Len(d.labels) = (IF suggested THEN 2 ELSE 1)
               /\ suggested =>
                     \E f \in DOMAIN module.functions :
                        /\ IsBestMatch(e, f)
                        /\ d.labels[2].span = module.functions[f].span
                        /\ d.labels[2].note.fmt = "maybe you meant to export {} instead?"
                        /\ d.labels[2].note.name = f

\* one invalid export suggested at a score of exactly 0.85 shared by two functions,
\* another one reported without a suggestion
C10_Witness ==
    /\ Len(marks) >= 1
    /\ \E e, x \in UndefinedExports :
          /\ Len(DiagnosticsAt(ExportDiagnostics, ExportSpan(e))[1].labels) = 2
          /\ Len(DiagnosticsAt(ExportDiagnostics, ExportSpan(x))[1].labels) = 1
          /\ DOMAIN module.functions # {}
          /\ \A f \in DOMAIN module.functions : ScoreOf(e, f) = SimilarityThreshold

(***************************************************************************)
(* C11.  VerifyNifs, for each declared native-function name: one "invalid  *)
(* -nif declaration" error at the declaration's span when the name is no   *)
(* key of functions; one "misplaced -nif declaration" error at the span of *)
(* the function's definition, none at the declaration, when the function   *)
(* is defined with is_nif false; nothing when it is defined with is_nif    *)
(* true.  The pass reports nothing else.                                   *)
(***************************************************************************)
NifDiagnostics == SubSeq(reporter, MarkAt(2) + 1, MarkAt(3))

InvalidNifs == {n \in module.nifs : n \notin DOMAIN module.functions}

MisplacedNifs ==
    {n \in module.nifs : n \in DOMAIN module.functions /\ ~module.functions[n].is_nif}

C11_NifDeclarations ==
    Len(marks) >= 3 =>
        /\ Len(NifDiagnostics) = Cardinality(InvalidNifs) + Cardinality(MisplacedNifs)
        /\ \A i \in 1..Len(NifDiagnostics) : NifDiagnostics[i].severity = "error"
        /\ \A n \in module.nifs :
              LET atDeclaration == DiagnosticsAt(NifDiagnostics, NifSpan(n))
                  atFunction == IF n \in DOMAIN module.functions
                                THEN DiagnosticsAt(NifDiagnostics, module.functions[n].span)
                                ELSE <<>>
              IN CASE n \in InvalidNifs ->
                        /\ Len(atDeclaration) = 1
                        /\ atDeclaration[1].message = "invalid -nif declaration"
                   [] n \in MisplacedNifs ->
                        /\ atDeclaration = <<>>
                        /\ Len(atFunction) = 1
                        /\ atFunction[1].message = "misplaced -nif declaration"
                   [] OTHER -> atDeclaration = <<>> /\ atFunction = <<>>

\* an undefined, a misplaced and a well-placed declaration in one module
C11_Witness ==
    /\ Len(marks) >= 3
    /\ InvalidNifs # {}
    /\ MisplacedNifs # {}
    /\ module.nifs \ (InvalidNifs \cup MisplacedNifs) # {}
    /\ Len(NifDiagnostics) = 2

(***************************************************************************)
(* C12.  VerifyTypeSpecs reports warnings only, never an error: for each   *)
(* declared type-spec name exactly one "type spec for undefined function"  *)
(* warning at the spec's span if and only if the local form of the name    *)
(* (module qualifier dropped) is no key of functions, and nothing else; a  *)
(* module-qualified spec name whose local form is defined gets nothing.    *)
(***************************************************************************)
SpecDiagnostics == SubSeq(reporter, MarkAt(3) + 1, MarkAt(4))

OrphanSpecs == {n \in DOMAIN module.specs : ToLocal(n) \notin DOMAIN module.functions}

C12_TypeSpecWarnings ==
    Len(marks) >= 4 =>
        /\ Len(SpecDiagnostics) = Cardinality(OrphanSpecs)
        /\ \A i \in 1..Len(SpecDiagnostics) :
              /\ SpecDiagnostics[i].severity = "warning"
              /\ SpecDiagnostics[i].message = "type spec for undefined function"
        /\ \A n \in DOMAIN module.specs :
              Len(DiagnosticsAt(SpecDiagnostics, module.specs[n].span))
                  = IF n \in OrphanSpecs THEN 1 ELSE 0

\* a module-qualified spec of a defined function, silent, beside an orphaned spec
C12_Witness ==
    /\ Len(marks) >= 4
    /\ OrphanSpecs # {}
    /\ Len(SpecDiagnostics) = Cardinality(OrphanSpecs)
    /\ \E n \in DOMAIN module.specs :
          /\ n.module # NoModule
          /\ ToLocal(n) \in DOMAIN module.functions
          /\ DiagnosticsAt(SpecDiagnostics, module.specs[n].span) = <<>>

(***************************************************************************)
(* C13.  End to end: for module m that defines f/1 and g/0, exports only   *)
(* f/1 and calls foo(X) in g/0, foo/1 neither local nor imported, the      *)
(* passes report nothing for the export and exactly one error, for the     *)
(* call.  In general a local-form call, the bare atom included, to a name  *)
(* absent from locals and from imports gets exactly one "reference to      *)
(* undefined function" error whose annotation reads "the function NAME is  *)
(* not defined or imported in this module", NAME the function atom with    *)
(* the number of arguments of the call.                                    *)
(***************************************************************************)
UndefinedTarget(c) ==
    /\ LocalForm(c.apply.callee)
    /\ CalledName(c.apply) \notin DOMAIN module.functions
    /\ CalledName(c.apply) \notin DOMAIN module.imports

UndefinedErrorsOf(c) == SelectSeq(DiagnosticsOf(c), IsUndefinedError)

C13_UndefinedLocalCall ==
    FirstCallsReturned =>
        /\ module \in ScenarioModules =>
              /\ ExportDiagnostics = <<>>
              /\ Len(RunDiagnostics(1)) = 1
        /\ \A c \in VisitedCalls :
              UndefinedTarget(c) =>
                 /\ Len(UndefinedErrorsOf(c)) = 1
                 /\ UndefinedErrorsOf(c)[1].labels[1].note.fmt
                        = "the function {} is not defined or imported in this module"
                 /\ UndefinedErrorsOf(c)[1].labels[1].note.name = CalledName(c.apply)

(***************************************************************************)
(* C14.  The legacy any-arity variant is never silently skipped: whenever  *)
(* a deprecation query of VerifyCalls, the function-level query of any     *)
(* branch or the module-level query made for an Unresolved reference whose *)
(* module is a known atom, is answered with the legacy variant, the pass   *)
(* ends in the internal-error state instead of going on as if the target   *)
(* were not deprecated.                                                    *)
(***************************************************************************)
AnswerTo(q) ==
    CASE q.op = "get_function_deprecation" -> GetFunctionDeprecation(app, q.name)
      [] q.op = "get_module_deprecation" -> GetModuleDeprecation(app, q.name.module)
      [] OTHER -> NoFact

LegacyAnswered ==
    \E i \in 1..Len(queries) : AnswerTo(queries[i]).tag = "FunctionAnyArity"

C14_LegacyNeverSkipped == LegacyAnswered => status = "panicked"

(***************************************************************************)
(* C15.  VerifyCalls checks every call expression occurring anywhere in a  *)
(* function body: a call nested in the callee position of another call is  *)
(* classified and checked just like a call nested in an argument, with the *)
(* same lookups and the same diagnostics, so an undefined target there,    *)
(* called with an argument count the 8-bit arity holds, gets its error.    *)
(***************************************************************************)
\* the call expressions that occur in a call, callee position included
RECURSIVE OccurringFrom(_)
OccurringFrom(apply) ==
    {apply}
        \cup UNION {OccurringFrom(apply.args[i]) : i \in 1..Len(apply.args)}
        \cup UNION {OccurringFrom(apply.callee.inner[i]) : i \in 1..Len(apply.callee.inner)}

OccurringIn(function) ==
    UNION {OccurringFrom(function.body[i]) : i \in 1..Len(function.body)}

OccurringCalls ==
    UNION {{[owner |-> n, apply |-> a] : a \in OccurringIn(module.functions[n])} :
              n \in DOMAIN module.functions}

CheckedAsCall(c) ==
    LET out == CheckCallee(VisitorContext(module, app), c.owner, c.apply)
    IN /\ QueriesOf(c) = out.queries
       /\ DiagnosticsOf(c) = out.diags

C15_EveryCallChecked ==
    FirstCallsReturned =>
        \A c \in OccurringCalls :
            /\ CheckedAsCall(c)
            /\ UndefinedTarget(c) /\ c.apply.nargs < ArityWidth
                  => Len(UndefinedErrorsOf(c)) = 1

(***************************************************************************)
(* C16.  For every call the arity VerifyCalls uses is the number of        *)
(* arguments of the call, for every argument count, counts above 255       *)
(* included: the name looked up in locals and in imports (a Resolved       *)
(* reference, looked up under its own name, aside), and the name of a      *)
(* Remote call's deprecation query, carry that number, and a reference     *)
(* that records an integer arity gets an arity error, naming that number,  *)
(* exactly when the recorded arity differs from it.                        *)
(***************************************************************************)
RecordsArity(callee) ==
    /\ callee.kind \in {"Resolved", "PartiallyResolved", "Unresolved"}
    /\ callee.arity.tag = "Int"

C16_ArityIsArgumentCount ==
    FirstCallsReturned =>
        \A c \in VisitedCalls :
            LET callee == c.apply.callee
                k == c.apply.nargs
                asked == QueriesOf(c)
                got == ArityErrorsOf(c)
            IN /\ \A i \in 1..Len(asked) :
                     (\/ asked[i].op \in {"locals.contains", "imports.get"}
                            /\ callee.kind # "Resolved"
                      \/ asked[i].op = "get_function_deprecation" /\ callee.kind = "Remote")
                        => asked[i].name.arity = k
               /\ RecordsArity(callee) =>
                     /\ (got = <<>>) <=> (callee.arity.n = k)
                     /\ \A i \in 1..Len(got) : got[i].labels[1].note.k = k

====
